---- MODULE Spec2Model ----
(***************************************************************************)
(* A model of src/main.cpp: the "skiing in Singapore" solver.              *)
(*                                                                         *)
(* One run of the program is: main reads the map file (ElevationMap::read),*)
(* solve walks every cell, calling the recursive dfs, and prints the two   *)
(* result lines.  The recursion of dfs is modelled by an explicit call     *)
(* stack of frames; everything else is the program's own data.             *)
(* Indices are 0-based, as in the source: data and states are functions    *)
(* on 0..size-1.                                                           *)
(***************************************************************************)
EXTENDS Integers, Sequences, FiniteSets

VARIABLES
    file,          \* the token stream of the input file (std::ifstream file)
    columns,       \* ElevationMap::columns
    rows,          \* ElevationMap::rows
    size,          \* ElevationMap::size
    data,          \* ElevationMap::data, a function on 0..size-1
    states,        \* std::vector<NodeState> states, a function on 0..size-1
    stack,         \* the call stack of dfs: the innermost call is the last frame
    v,             \* solve's loop variable
    max_distance,  \* solve's max_distance
    max_drop,      \* solve's max_drop
    pc,            \* where main/solve is: main, solve, loop, reduce, done, aborted
    out,           \* the lines written to std::cout
    exit,          \* how the process ended: running, exit0, abort
    calls,         \* how many times dfs was entered for each cell (bookkeeping)
    history        \* earlier runs of the program: their map and their output

vars == <<file, columns, rows, size, data, states, stack, v, max_distance,
          max_drop, pc, out, exit, calls, history>>

----------------------------------------------------------------------------
(* Bounds of the model.                                                    *)

\* A well-formed map has at most MaxSize cells.
MaxSize == 4
\* Elevations (and non-negative tokens) are drawn from 0..MaxElev.
MaxElev == 3
\* An arbitrary token stream has at most MaxTokens tokens.
MaxTokens == 4
\* Negative tokens are drawn from -MaxNeg..-1.
MaxNeg == 2
\* The elevations of a map are multiplied by a factor in 1..MaxK.
MaxK == 3

----------------------------------------------------------------------------
(* Arithmetic of the source language.                                      *)

Abs(a) == IF a < 0 THEN -a ELSE a

Max(a, b) == IF a < b THEN b ELSE a

\* int / int truncates towards zero.
CDiv(a, b) ==
    LET q == Abs(a) \div Abs(b)
    IN  IF (a < 0) # (b < 0) THEN -q ELSE q

\* int % int has the sign of the dividend: a == (a / b) * b + a % b.
CMod(a, b) == a - b * CDiv(a, b)

----------------------------------------------------------------------------
(* The input stream.  A token either parses as an int or does not.         *)

Tok(n) == [ok |-> TRUE, val |-> n]

BadTok == [ok |-> FALSE, val |-> 0]

\* Extract with the stream's failed state forgotten: every token is tried.
Extract_IgnoresFailbit(is, k, old) ==
    IF k <= Len(is)
    THEN (IF is[k].ok THEN is[k].val ELSE 0)
    ELSE old

\* The k-th formatted extraction (is >> x) from the stream `is`, where `old`
\* is the value x holds before.  While the stream is good the k-th token is
\* stored.  A token that does not parse stores 0 and sets failbit; at end of
\* file, or once failbit is set, nothing is stored and x keeps its value.
Extract(is, k, old) ==
    IF \A j \in 1..k : j <= Len(is) /\ is[j].ok
    THEN is[k].val
    ELSE IF k <= Len(is) /\ (\A j \in 1..(k - 1) : is[j].ok)
         THEN 0
         ELSE old

\* The state a NodeState is constructed in.
NodeState0 == [visited |-> FALSE, distance |-> 0, drop |-> 0]

----------------------------------------------------------------------------
(* ElevationMap::lower_neighbors                                           *)

\* lower_neighbors with the right-hand test made on the index, not the column:
\* the last cell of a row sees the first cell of the next row.
lower_neighbors_Wraps(index) ==
    LET row       == CDiv(index, columns)
        column    == CMod(index, columns)
        elevation == data[index]
        left   == IF column > 0 /\ elevation > data[index - 1]
                  THEN <<index - 1>> ELSE <<>>
        right  == IF index < size - 1 /\ elevation > data[index + 1]
                  THEN <<index + 1>> ELSE <<>>
        top    == IF row > 0 /\ elevation > data[index - columns]
                  THEN <<index - columns>> ELSE <<>>
        bottom == IF row < rows - 1 /\ elevation > data[index + columns]
                  THEN <<index + columns>> ELSE <<>>
    IN  left \o right \o top \o bottom

\* lower_neighbors with the right-hand bound one too small: the cell before
\* the last of a row never looks right.
lower_neighbors_ShortRow(index) ==
    LET row       == CDiv(index, columns)
        column    == CMod(index, columns)
        elevation == data[index]
        left   == IF column > 0 /\ elevation > data[index - 1]
                  THEN <<index - 1>> ELSE <<>>
        right  == IF column < columns - 2 /\ elevation > data[index + 1]
                  THEN <<index + 1>> ELSE <<>>
        top    == IF row > 0 /\ elevation > data[index - columns]
                  THEN <<index - columns>> ELSE <<>>
        bottom == IF row < rows - 1 /\ elevation > data[index + columns]
                  THEN <<index + columns>> ELSE <<>>
    IN  left \o right \o top \o bottom

lower_neighbors(index) ==
    LET row       == CDiv(index, columns)
        column    == CMod(index, columns)
        elevation == data[index]
        left   == IF column > 0 /\ elevation > data[index - 1]
                  THEN <<index - 1>> ELSE <<>>
        right  == IF column < columns - 1 /\ elevation > data[index + 1]
                  THEN <<index + 1>> ELSE <<>>
        top    == IF row > 0 /\ elevation > data[index - columns]
                  THEN <<index - columns>> ELSE <<>>
        bottom == IF row < rows - 1 /\ elevation > data[index + columns]
                  THEN <<index + columns>> ELSE <<>>
    IN  left \o right \o top \o bottom

----------------------------------------------------------------------------
(* dfs: the body of the loop over the neighbors, after the recursive call. *)
(* sv is states[v], su is states[u], ev is map.data[v], eu is map.data[u]. *)

\* Relax with "else if (distance == ...)" written as "else": a shorter path
\* contributes its drop.
Relax_AnyLength(sv, su, ev, eu) ==
    LET distance == su.distance + 1
        drop     == su.drop + ev - eu
    IN  IF distance > sv.distance
        THEN [sv EXCEPT !.distance = distance, !.drop = drop]
        ELSE [sv EXCEPT !.drop = Max(sv.drop, drop)]

\* Relax without the equal-distance branch: the first longest path found
\* keeps its drop.
Relax_KeepsFirst(sv, su, ev, eu) ==
    LET distance == su.distance + 1
        drop     == su.drop + ev - eu
    IN  IF distance > sv.distance
        THEN [sv EXCEPT !.distance = distance, !.drop = drop]
        ELSE sv

\* Relax with the drop taken from the elevation of v alone.
Relax_NoSubtraction(sv, su, ev, eu) ==
    LET distance == su.distance + 1
        drop     == su.drop + ev
    IN  IF distance > sv.distance
        THEN [sv EXCEPT !.distance = distance, !.drop = drop]
        ELSE IF distance = sv.distance
             THEN [sv EXCEPT !.drop = Max(sv.drop, drop)]
             ELSE sv

Relax(sv, su, ev, eu) ==
    LET distance == su.distance + 1
        drop     == su.drop + ev - eu
    IN  IF distance > sv.distance
        THEN [sv EXCEPT !.distance = distance, !.drop = drop]
        ELSE IF distance = sv.distance
             THEN [sv EXCEPT !.drop = Max(sv.drop, drop)]
             ELSE sv

\* Finalize without the assignment of visited.
Finalize_Forgets(sv) == sv

\* The state a dfs call leaves its cell in when it returns.
Finalize(sv) == [sv EXCEPT !.visited = TRUE]

\* Reduce that keeps the greatest drop seen when a longer distance is found.
Reduce_KeepsDrop(md, mdrop, sv) ==
    IF sv.distance > md
    THEN [max_distance |-> sv.distance, max_drop |-> Max(mdrop, sv.drop)]
    ELSE IF sv.distance = md
         THEN [max_distance |-> md, max_drop |-> Max(mdrop, sv.drop)]
         ELSE [max_distance |-> md, max_drop |-> mdrop]

(* solve: the reduction of one cell into (max_distance, max_drop).         *)
Reduce(md, mdrop, sv) ==
    IF sv.distance > md
    THEN [max_distance |-> sv.distance, max_drop |-> sv.drop]
    ELSE IF sv.distance = md
         THEN [max_distance |-> md, max_drop |-> Max(mdrop, sv.drop)]
         ELSE [max_distance |-> md, max_drop |-> mdrop]

\* Printed with the distance printed as the length.
Printed_Distance(md, mdrop) ==
    << [label |-> "Length", value |-> md],
       [label |-> "Drop",   value |-> mdrop] >>

\* Printed with the + 1 of the length on the drop as well.
Printed_DropPlusOne(md, mdrop) ==
    << [label |-> "Length", value |-> md + 1],
       [label |-> "Drop",   value |-> mdrop + 1] >>

\* solve: the two lines printed.
Printed(md, mdrop) ==
    << [label |-> "Length", value |-> md + 1],
       [label |-> "Drop",   value |-> mdrop] >>

\* A new dfs activation for cell c: its neighbors, the position i of the
\* range-for in them, and where it is: "test" is the if (!visited) of the
\* current neighbor (or the end of the loop), "update" is the code after it.
Frame(c) == [v |-> c, neighbors |-> lower_neighbors(c), i |-> 1, at |-> "test"]

Top == stack[Len(stack)]

Pop(s) == SubSeq(s, 1, Len(s) - 1)

----------------------------------------------------------------------------
(* Initial states.                                                         *)

\* The file that holds a map of C columns and R rows with elevations d.
MapFile(C, R, d) ==
    <<Tok(C), Tok(R)>> \o [k \in 1..(C * R) |-> Tok(d[k - 1])]

Shapes == {s \in (1..MaxSize) \X (1..MaxSize) : s[1] * s[2] <= MaxSize}

WellFormedFiles ==
    UNION { { MapFile(s[1], s[2], d) : d \in [0..(s[1] * s[2] - 1) -> 0..MaxElev] }
            : s \in Shapes }

Tokens == { Tok(n) : n \in (-MaxNeg)..MaxElev } \cup {BadTok}

AnyFiles == UNION { [1..n -> Tokens] : n \in 0..MaxTokens }

\* The process before main runs: the member initialisers of ElevationMap.
Start(f) ==
    /\ file = f
    /\ columns = 0
    /\ rows = 0
    /\ size = 0
    /\ data = <<>>
    /\ states = <<>>
    /\ stack = <<>>
    /\ v = 0
    /\ max_distance = 0
    /\ max_drop = 0
    /\ pc = "main"
    /\ out = <<>>
    /\ exit = "running"
    /\ calls = <<>>

Init == (\E f \in WellFormedFiles : Start(f)) /\ history = <<>>

InitAny == (\E f \in AnyFiles : Start(f)) /\ history = <<>>

----------------------------------------------------------------------------
(* main: map.read(file).  data.resize with a negative size asks for more   *)
(* than max_size() elements and throws std::length_error; nothing catches  *)
(* it, so the process is aborted before solve runs.                        *)

MainRead ==
    /\ pc = "main"
    /\ LET c == Extract(file, 1, columns)
           r == Extract(file, 2, rows)
           n == r * c
       IN  /\ columns' = c
           /\ rows' = r
           /\ size' = n
           /\ IF n < 0
              THEN /\ data' = data
                   /\ pc' = "aborted"
                   /\ exit' = "abort"
              ELSE /\ data' = [k \in 0..(n - 1) |-> Extract(file, k + 3, 0)]
                   /\ pc' = "solve"
                   /\ exit' = exit
    /\ UNCHANGED <<file, states, stack, v, max_distance, max_drop, out, calls,
                   history>>

(* solve: the declarations before the loop.                                *)
SolveBegin ==
    /\ pc = "solve"
    /\ states' = [k \in 0..(size - 1) |-> NodeState0]
    /\ calls' = [k \in 0..(size - 1) |-> 0]
    /\ max_distance' = 0
    /\ max_drop' = 0
    /\ v' = 0
    /\ pc' = "loop"
    /\ UNCHANGED <<file, columns, rows, size, data, stack, out, exit, history>>

(* solve: the loop test and if (!states[v].visited) dfs(map, v, states).   *)
LoopTest ==
    /\ pc = "loop"
    /\ stack = <<>>
    /\ v < size
    /\ IF ~states[v].visited
       THEN /\ stack' = <<Frame(v)>>
            /\ calls' = [calls EXCEPT ![v] = @ + 1]
       ELSE UNCHANGED <<stack, calls>>
    /\ pc' = "reduce"
    /\ UNCHANGED <<file, columns, rows, size, data, states, v, max_distance,
                   max_drop, out, exit, history>>

(* solve: the reduction of states[v] and ++v.                              *)
LoopReduce ==
    /\ pc = "reduce"
    /\ stack = <<>>
    /\ LET m == Reduce(max_distance, max_drop, states[v])
       IN  /\ max_distance' = m.max_distance
           /\ max_drop' = m.max_drop
    /\ v' = v + 1
    /\ pc' = "loop"
    /\ UNCHANGED <<file, columns, rows, size, data, states, stack, out, exit,
                   calls, history>>

(* solve: the loop has ended; print the solution; main returns 0.          *)
PrintSolution ==
    /\ pc = "loop"
    /\ stack = <<>>
    /\ ~(v < size)
    /\ out' = out \o Printed(max_distance, max_drop)
    /\ pc' = "done"
    /\ exit' = "exit0"
    /\ UNCHANGED <<file, columns, rows, size, data, states, stack, v,
                   max_distance, max_drop, calls, history>>

(* dfs: the next neighbor u and if (!states[u].visited) dfs(map, u, states)*)
DfsTest ==
    /\ stack # <<>>
    /\ Top.at = "test"
    /\ Top.i <= Len(Top.neighbors)
    /\ LET u    == Top.neighbors[Top.i]
           here == [Top EXCEPT !.at = "update"]
       IN  IF ~states[u].visited
           THEN /\ stack' = Append(Append(Pop(stack), here), Frame(u))
                /\ calls' = [calls EXCEPT ![u] = @ + 1]
           ELSE /\ stack' = Append(Pop(stack), here)
                /\ calls' = calls
    /\ UNCHANGED <<file, columns, rows, size, data, states, v, max_distance,
                   max_drop, pc, out, exit, history>>

(* dfs: distance and drop through u, and the update of states[v].          *)
DfsUpdate ==
    /\ stack # <<>>
    /\ Top.at = "update"
    /\ LET u == Top.neighbors[Top.i]
           w == Top.v
       IN  states' = [states EXCEPT ![w] = Relax(states[w], states[u], data[w], data[u])]
    /\ stack' = Append(Pop(stack), [Top EXCEPT !.i = @ + 1, !.at = "test"])
    /\ UNCHANGED <<file, columns, rows, size, data, v, max_distance, max_drop,
                   pc, out, exit, calls, history>>

(* dfs: the loop has ended; states[v].visited = true; return.              *)
DfsReturn ==
    /\ stack # <<>>
    /\ Top.at = "test"
    /\ Top.i > Len(Top.neighbors)
    /\ states' = [states EXCEPT ![Top.v] = Finalize(@)]
    /\ stack' = Pop(stack)
    /\ UNCHANGED <<file, columns, rows, size, data, v, max_distance, max_drop,
                   pc, out, exit, calls, history>>

Next ==
    \/ MainRead
    \/ SolveBegin
    \/ LoopTest
    \/ LoopReduce
    \/ PrintSolution
    \/ DfsTest
    \/ DfsUpdate
    \/ DfsReturn

Spec == Init /\ [][Next]_vars

\* The program run on any token stream, well-formed or not.
SpecInput == InitAny /\ [][Next]_vars

----------------------------------------------------------------------------
(* Running the program a second time, on a map derived from the first.     *)

\* The program started again on file f: the same state as Start(f).
Restart(f) ==
    /\ file' = f
    /\ columns' = 0
    /\ rows' = 0
    /\ size' = 0
    /\ data' = <<>>
    /\ states' = <<>>
    /\ stack' = <<>>
    /\ v' = 0
    /\ max_distance' = 0
    /\ max_drop' = 0
    /\ pc' = "main"
    /\ out' = <<>>
    /\ exit' = "running"
    /\ calls' = <<>>

\* The map the finished run worked on.
Map == [columns |-> columns, rows |-> rows, data |-> data]

\* Mirror left-right: cell (r, c) takes the value of (r, C-1-c).
HFlip(m) ==
    [m EXCEPT !.data = [i \in DOMAIN m.data |->
        m.data[(i \div m.columns) * m.columns + (m.columns - 1 - (i % m.columns))]]]

\* Mirror top-bottom: cell (r, c) takes the value of (R-1-r, c).
VFlip(m) ==
    [m EXCEPT !.data = [i \in DOMAIN m.data |->
        m.data[(m.rows - 1 - (i \div m.columns)) * m.columns + (i % m.columns)]]]

\* Quarter turn clockwise: the new map has R columns and C rows, and its
\* cell (r, c) takes the value of the old cell (R-1-c, r).
Rot90(m) ==
    [columns |-> m.rows,
     rows    |-> m.columns,
     data    |-> [i \in DOMAIN m.data |->
        m.data[(m.rows - 1 - (i % m.rows)) * m.columns + (i \div m.rows)]]]

Rot180(m) == Rot90(Rot90(m))

Rot270(m) == Rot90(Rot180(m))

Transforms == {"hflip", "vflip", "rot90", "rot180", "rot270"}

Apply(t, m) ==
    CASE t = "hflip"  -> HFlip(m)
      [] t = "vflip"  -> VFlip(m)
      [] t = "rot90"  -> Rot90(m)
      [] t = "rot180" -> Rot180(m)
      [] t = "rot270" -> Rot270(m)

\* Every elevation multiplied by k.
Scale(k, m) == [m EXCEPT !.data = [i \in DOMAIN m.data |-> k * m.data[i]]]

\* What is kept of a finished run.
Finished(how, k) ==
    [columns |-> columns, rows |-> rows, data |-> data, out |-> out,
     change |-> how, factor |-> k]

\* The program has finished; it is run again on the flipped or rotated map.
RunTransformed ==
    /\ pc = "done"
    /\ history = <<>>
    /\ \E t \in Transforms :
          /\ history' = <<Finished(t, 1)>>
          /\ LET m == Apply(t, Map)
             IN  Restart(MapFile(m.columns, m.rows, m.data))

\* The program has finished; it is run again on the map scaled by k.
RunScaled ==
    /\ pc = "done"
    /\ history = <<>>
    /\ \E k \in 1..MaxK :
          /\ history' = <<Finished("scale", k)>>
          /\ LET m == Scale(k, Map)
             IN  Restart(MapFile(m.columns, m.rows, m.data))

NextFlip == Next \/ RunTransformed

NextScale == Next \/ RunScaled

SpecFlip == Init /\ [][NextFlip]_vars

SpecScale == Init /\ [][NextScale]_vars

----------------------------------------------------------------------------
(* The problem, stated on the grid itself: cells are (row, column) pairs,  *)
(* cell (r, c) is stored at r * columns + c.                               *)

Cell(r, c) == r * columns + c

Cells == 0..(size - 1)

InGrid(r, c) == r \in 0..(rows - 1) /\ c \in 0..(columns - 1)

Directions == {<<0, -1>>, <<0, 1>>, <<-1, 0>>, <<1, 0>>}

\* i and j are side by side or one above the other.
Adjacent(i, j) ==
    \E r \in 0..(rows - 1), c \in 0..(columns - 1) :
        /\ i = Cell(r, c)
        /\ \E d \in Directions :
              InGrid(r + d[1], c + d[2]) /\ j = Cell(r + d[1], c + d[2])

\* The cells one can ski to from i.
LowerAdj(i) == {j \in Cells : Adjacent(i, j) /\ data[j] < data[i]}

\* The descending paths that extend a path of P by one cell.
Extended(P) == UNION { {Append(p, j) : j \in LowerAdj(p[Len(p)])} : p \in P }

RECURSIVE PathsFrom(_)
\* The paths of P and all their extensions.
PathsFrom(P) == IF P = {} THEN {} ELSE P \cup PathsFrom(Extended(P))

\* Every path of 4-adjacent cells of strictly decreasing elevation.
DescendingPaths == PathsFrom({<<i>> : i \in Cells})

PathDrop(p) == data[p[1]] - data[p[Len(p)]]

SetMax(S) == CHOOSE x \in S : \A y \in S : y <= x

SetMin(S) == CHOOSE x \in S : \A y \in S : x <= y

LongestOf(P) == SetMax({Len(p) : p \in P})

DeepestOf(P) ==
    LET n == LongestOf(P)
    IN  SetMax({PathDrop(p) : p \in {q \in P : Len(q) = n}})

Length(c) == states[c].distance + 1

LengthOut == out[1].value

DropOut == out[2].value

TwoLines == Len(out) = 2 /\ out[1].label = "Length" /\ out[2].label = "Drop"

----------------------------------------------------------------------------
(* The claims.                                                             *)

\* C1: for every well-formed grid, the value printed after "Length: " is the
\* greatest number of cells on a path of 4-adjacent cells of strictly
\* decreasing elevation, and the value printed after "Drop: " is the greatest
\* first-minus-last elevation over the paths that have exactly that many cells.
C1_LongestThenDeepest ==
    pc = "done" =>
        LET P == DescendingPaths
        IN  /\ TwoLines
            /\ LengthOut = LongestOf(P)
            /\ DropOut = DeepestOf(P)

\* A finished run on a map where some shorter path drops more than every
\* longest path.
C1_Witness ==
    /\ pc = "done"
    /\ LET P == DescendingPaths
           n == LongestOf(P)
           d == DeepestOf(P)
       IN  /\ n >= 3
           /\ \E p \in P : Len(p) < n /\ PathDrop(p) > d

\* The lower neighbors of w whose length is one less than that of w.
Successors(w) == {u \in LowerAdj(w) : Length(u) = Length(w) - 1}

\* C2: when solve finishes, every cell w of length > 1 has a strictly lower
\* neighbor of length(w) - 1, and its drop is the greatest drop(u) + elev(w) -
\* elev(u) over exactly those neighbors; shorter neighbors never contribute.
C2_DropThroughLongest ==
    pc = "done" =>
        \A w \in Cells :
            Length(w) > 1 =>
                /\ Successors(w) # {}
                /\ states[w].drop =
                       SetMax({states[u].drop + data[w] - data[u] : u \in Successors(w)})

\* A finished run with a cell that has a shorter lower neighbor offering a
\* larger drop than the one recorded.
C2_Witness ==
    /\ pc = "done"
    /\ \E w \in Cells :
          \E u \in LowerAdj(w) \ Successors(w) :
              states[u].drop + data[w] - data[u] > states[w].drop

\* C3: when solve finishes, every cell has distance >= 0 (length >= 1), and it
\* has distance 0 and drop 0 exactly when no 4-neighbor is strictly lower.
C3_LocalMinima ==
    pc = "done" =>
        \A w \in Cells :
            /\ states[w].distance >= 0
            /\ (states[w].distance = 0) <=> (LowerAdj(w) = {})
            /\ (states[w].distance = 0 /\ states[w].drop = 0) <=> (LowerAdj(w) = {})

\* A finished run with a cell whose neighbors are equal or higher, one of them
\* equal, and a cell of length > 1.
C3_Witness ==
    /\ pc = "done"
    /\ \E w \in Cells :
          /\ states[w].distance = 0
          /\ \E u \in Cells : Adjacent(w, u) /\ data[u] = data[w]
          /\ \E u \in Cells : Adjacent(w, u) /\ data[u] > data[w]
    /\ \E w \in Cells : states[w].distance > 0

\* C4: the two printed values are the same for a grid and for its horizontal
\* flip, vertical flip and rotations by 90, 180 and 270 degrees.
C4_SymmetryInvariant ==
    (pc = "done" /\ history # <<>>) => out = history[1].out

\* A finished second run, on a quarter-turned map of another shape with
\* another cell order, whose longest path has three cells or more.
C4_Witness ==
    /\ pc = "done"
    /\ history # <<>>
    /\ history[1].change = "rot90"
    /\ columns # history[1].columns
    /\ data # history[1].data
    /\ LengthOut >= 3

\* C5: multiplying every elevation by a positive k leaves the printed Length
\* unchanged and multiplies the printed Drop by k.
C5_Scaling ==
    (pc = "done" /\ history # <<>>) =>
        /\ TwoLines
        /\ LengthOut = history[1].out[1].value
        /\ DropOut = history[1].factor * history[1].out[2].value

\* A finished second run on a map scaled by k > 1 whose drop is not 0.
C5_Witness ==
    /\ pc = "done"
    /\ history # <<>>
    /\ history[1].factor > 1
    /\ history[1].out[2].value > 0
    /\ LengthOut >= 3

\* C6: the printed Drop is at least 0 and at most the greatest elevation of
\* the grid minus the least.
C6_DropBounds ==
    pc = "done" =>
        /\ 0 <= DropOut
        /\ DropOut <= SetMax({data[i] : i \in Cells}) - SetMin({data[i] : i \in Cells})

\* A finished run whose drop is the whole range of the grid, and not 0.
C6_Witness ==
    /\ pc = "done"
    /\ DropOut > 0
    /\ DropOut = SetMax({data[i] : i \in Cells}) - SetMin({data[i] : i \in Cells})

\* The number of leading tokens of f that parse.
GoodLen(f) ==
    CHOOSE n \in 0..Len(f) :
        /\ \A j \in 1..n : f[j].ok
        /\ n = Len(f) \/ ~f[n + 1].ok

\* The k-th number of f, or 0 from the first token that is missing or bad.
ValueAt(f, k) == IF k <= GoodLen(f) THEN f[k].val ELSE 0

Terminated == pc \in {"done", "aborted"}

\* C7 as stated: when the input declares an empty grid (C*R = 0), the program
\* exits with a non-zero code and prints neither line.
C7_EmptyGridFails ==
    (Terminated /\ size = 0) => (exit = "abort" /\ out = <<>>)

\* C7 as the code has it: when the input declares an empty grid (C*R = 0),
\* the loop of solve runs for no cell and the program prints "Length: 1" and
\* "Drop: 0" and exits with code 0.
C7_EmptyGridPrintsOneZero ==
    (Terminated /\ size = 0) =>
        /\ pc = "done"
        /\ exit = "exit0"
        /\ out = << [label |-> "Length", value |-> 1], [label |-> "Drop", value |-> 0] >>

\* A finished run on a file that declares 0 columns and some rows.
C7_Witness ==
    /\ pc = "done"
    /\ Len(file) >= 2
    /\ file[1] = Tok(0)
    /\ file[2].ok /\ file[2].val > 0
    /\ size = 0

\* A dimension is negative, or the number of elevation tokens differs from
\* C*R, or a token does not parse as an integer.
Malformed(f) ==
    \/ \E j \in 1..Len(f) : ~f[j].ok
    \/ Len(f) < 2
    \/ f[1].val < 0
    \/ f[2].val < 0
    \/ Len(f) - 2 # f[1].val * f[2].val

\* C8 as stated: when the token stream is malformed, the program exits
\* non-zero and prints no result.
C8_MalformedFails ==
    (Terminated /\ Malformed(file)) => (exit = "abort" /\ out = <<>>)

\* C8 as the code has it: read checks nothing.  A dimension or elevation that
\* is missing, or is at or after the first token that does not parse, is 0,
\* and surplus tokens are ignored.  Only when C*R is negative does the program
\* end abnormally with no output; otherwise solve runs on the grid so filled
\* and the program prints both lines and exits with code 0.
C8_MalformedIsZeroFilled ==
    (Terminated /\ Malformed(file)) =>
        /\ columns = ValueAt(file, 1)
        /\ rows = ValueAt(file, 2)
        /\ size = rows * columns
        /\ IF size < 0
           THEN pc = "aborted" /\ exit = "abort" /\ out = <<>>
           ELSE /\ pc = "done"
                /\ exit = "exit0"
                /\ TwoLines
                /\ DOMAIN data = Cells
                /\ \A k \in Cells : data[k] = ValueAt(file, k + 3)
                /\ LengthOut = 1 + SetMax({states[k].distance : k \in Cells} \cup {0})

\* A finished run on a file that ends early and has a bad token before the
\* end, with a result computed from the partly filled grid.
C8_Witness ==
    /\ pc = "done"
    /\ Len(file) = 4
    /\ file[1] = Tok(2)
    /\ file[2] = Tok(2)
    /\ file[3].ok /\ file[3].val > 0
    /\ ~file[4].ok
    /\ LengthOut = 2

\* The lower neighbor of cell (r, c) in direction (dr, dc), if there is one.
Toward(r, c, dr, dc) ==
    IF InGrid(r + dr, c + dc) /\ data[Cell(r + dr, c + dc)] < data[Cell(r, c)]
    THEN <<Cell(r + dr, c + dc)>>
    ELSE <<>>

\* Left, right, top, bottom.
ExpectedNeighbors(r, c) ==
    Toward(r, c, 0, -1) \o Toward(r, c, 0, 1) \o Toward(r, c, -1, 0) \o Toward(r, c, 1, 0)

Range(q) == {q[k] : k \in 1..Len(q)}

\* C9: for every index of a grid with C >= 1 and R >= 1, lower_neighbors
\* returns exactly the in-range indices in the same row at column +-1 or in
\* the same column at row +-1 whose elevation is strictly less, none twice,
\* in the order left, right, top, bottom.
C9_LowerNeighbors ==
    \* the map does not change once it is read: every index is tried when
    \* solve is entered, and every call of dfs is looked at where it is made
    /\ pc = "solve" =>
          \A r \in 0..(rows - 1), c \in 0..(columns - 1) :
              LET ns == lower_neighbors(Cell(r, c))
              IN  /\ ns = ExpectedNeighbors(r, c)
                  /\ Range(ns) = LowerAdj(Cell(r, c))
                  /\ Cardinality(Range(ns)) = Len(ns)
    /\ \A k \in 1..Len(stack) :
          /\ Range(stack[k].neighbors) = LowerAdj(stack[k].v)
          /\ Cardinality(LowerAdj(stack[k].v)) = Len(stack[k].neighbors)

\* dfs has just been called for the last cell of a row that is not the last
\* row; the first cell of the next row is lower, and there are a lower cell
\* to the left and a lower cell below.
C9_Witness ==
    /\ stack # <<>>
    /\ Top.i = 1
    /\ \E r \in 0..(rows - 2) :
          /\ Top.v = Cell(r, columns - 1)
          /\ data[Top.v + 1] < data[Top.v]
          /\ Top.neighbors = <<Top.v - 1, Top.v + columns>>

OnStack == {stack[k].v : k \in 1..Len(stack)}

\* What holds of every state of a run.
C10_State ==
    pc \notin {"main", "solve", "aborted"} =>
        \* dfs is entered at most once per cell
        /\ \A c \in Cells : calls[c] <= 1
        \* no cell is twice on the call stack
        /\ \A j \in 1..Len(stack), k \in 1..Len(stack) :
              stack[j].v = stack[k].v => j = k
        /\ Len(stack) <= size
        \* a cell is unvisited before its call, in progress during it, and
        \* finalized after it
        /\ \A c \in Cells :
              /\ c \in OnStack => (calls[c] = 1 /\ ~states[c].visited)
              /\ states[c].visited => (calls[c] = 1 /\ c \notin OnStack)
              /\ calls[c] = 0 => states[c] = NodeState0
        \* dfs reads states[u] only of a finalized u
        /\ (stack # <<>> /\ Top.at = "update") =>
              states[Top.neighbors[Top.i]].visited
        \* solve reads states[v] only of a finalized v
        /\ (stack = <<>> /\ pc = "reduce") => states[v].visited
        /\ pc = "done" => \A c \in Cells : states[c].visited

\* What holds of every step of a run: a finalized cell is never written.
C10_Step ==
    \A c \in DOMAIN states :
        states[c].visited => (c \in DOMAIN states' /\ states'[c] = states[c])

\* C10: each cell goes from unvisited to in progress to finalized once: dfs is
\* entered at most once per cell, no cell is twice on the call stack (whose
\* depth is at most C*R), states[u] and states[v] are read only once the cell
\* is visited, and a visited cell's distance and drop are not written again.
C10_VisitOnce == [](C10_State) /\ [][C10_Step]_vars

\* The call stack is as deep as the grid has cells, with at least three cells.
C10_Witness ==
    /\ Len(stack) = size
    /\ size >= 3
    /\ \E c \in Cells : calls[c] = 1

====
